---- MODULE Spec2Model ----
(***************************************************************************)
(* Model of sudospawner/mediator.py: the mediator reads one JSON request   *)
(* on stdin and either probes/terminates a batch job (kill) or submits a   *)
(* job that launches a single-user server (spawn).                         *)
(*                                                                         *)
(* Text is modelled as a sequence of lexical tokens (a token is a TLA+     *)
(* string); list.join, str.split, str.strip, int() and json.dump operate   *)
(* on these sequences the way the Python operations do on characters.      *)
(***************************************************************************)
EXTENDS Integers, Sequences, FiniteSets, TLC

VARIABLES
    stdin,       \* the request on standard input (fixed for one invocation)
    pc,          \* position of the process started by the caller (the parent)
    alive,       \* local `alive` of kill(): None while unbound
    state,       \* local `state` of kill(): job_state reported by qstat
    rc,          \* local `rc` of kill(): return code of qdel
    port,        \* local `port` of spawn()
    cmd,         \* local `cmd` of spawn(): list of strings
    serialpbs,   \* local `serialpbs` of spawn(): the job payload text
    env,         \* the `env` dict of spawn()
    stdout,      \* what the caller has received on the parent's standard output
    exitStatus,  \* exit status of the parent, -1 while it runs
    extCalls,    \* external commands invoked so far, in order
    forks,       \* number of os.fork() calls made
    pipe,        \* bytes written into the result pipe
    wParent,     \* the parent's copy of the pipe writer is open
    wChild,      \* the child's copy of the pipe writer is open
    cpc,         \* position of the detached child, "none" before the fork
    childExit,   \* exit status of the child, -1 while it runs or does not exist
    childStdio,  \* where the child's standard streams point: "caller" or "null"
    childPgrp,   \* the child has its own process group
    qsub,        \* the submission subprocess: outcome record chosen at Popen
    qsubState,   \* "none", "running", "zombie" (terminated, unreaped), "reaped"
    out,         \* local `out` of the child
    jobid,       \* local `jobid` of the child
    wbuf,        \* text buffered in the child's file object around the writer
    data         \* what the parent's r.read() returned

vars == <<stdin, pc, alive, state, rc, port, cmd, serialpbs, env, stdout,
          exitStatus, extCalls, forks, pipe, wParent, wChild, cpc, childExit,
          childStdio, childPgrp, qsub, qsubState, out, jobid, wbuf, data>>

killLocals == <<alive, state, rc>>

spawnLocals == <<port, cmd, serialpbs, env>>

childVars == <<cpc, childExit, childStdio, childPgrp, qsub, qsubState, out,
               jobid, wbuf>>

----------------------------------------------------------------------------
(* Bounds of the model *)

\* longest args list of a spawn request
MaxArgs == 2

\* longest output (in tokens) printed by the submission command
MaxOut == 3

----------------------------------------------------------------------------
(* Generic text helpers *)

Range(s) == {s[i] : i \in 1..Len(s)}

RECURSIVE Join(_, _)
\* sep.join(ss)
Join(sep, ss) ==
    IF ss = <<>> THEN <<>>
    ELSE IF Len(ss) = 1 THEN Head(ss)
    ELSE Head(ss) \o sep \o Join(sep, Tail(ss))

RECURSIVE Split(_, _)
\* s.split(sep) for a one-token separator: always at least one part
Split(s, sep) ==
    IF \A i \in 1..Len(s) : s[i] # sep THEN <<s>>
    ELSE LET i == CHOOSE k \in 1..Len(s) :
                      s[k] = sep /\ \A j \in 1..(k - 1) : s[j] # sep
         IN  <<SubSeq(s, 1, i - 1)>> \o Split(SubSeq(s, i + 1, Len(s)), sep)

\* needle in s (substring test)
Contains(s, needle) ==
    \E i \in 0..(Len(s) - Len(needle)) :
        SubSeq(s, i + 1, i + Len(needle)) = needle

Whitespace == {" ", "\n"}

RECURSIVE LStrip(_)
LStrip(s) == IF s # <<>> /\ Head(s) \in Whitespace THEN LStrip(Tail(s)) ELSE s

RECURSIVE RStrip(_)
RStrip(s) ==
    IF s # <<>> /\ s[Len(s)] \in Whitespace
    THEN RStrip(SubSeq(s, 1, Len(s) - 1)) ELSE s

\* s.strip()
Strip(s) == LStrip(RStrip(s))

----------------------------------------------------------------------------
(* Optional values: a local that may be unbound *)

None == <<>>

Some(x) == <<x>>

Get(o) == o[1]

----------------------------------------------------------------------------
(* Numbers and JSON *)

Digits == <<"0", "1", "2", "3", "4", "5", "6", "7", "8", "9">>

DigitSet == Range(Digits)

DigitVal(d) == (CHOOSE i \in 1..Len(Digits) : Digits[i] = d) - 1

\* int(s) succeeds: optional surrounding whitespace, then decimal digits only
IsIntLiteral(s) ==
    LET t == Strip(s) IN t # <<>> /\ \A i \in 1..Len(t) : t[i] \in DigitSet

RECURSIVE DigitsValue(_)
DigitsValue(t) ==
    IF t = <<>> THEN 0
    ELSE DigitsValue(SubSeq(t, 1, Len(t) - 1)) * 10 + DigitVal(t[Len(t)])

\* int(s), defined where IsIntLiteral(s)
ParseInt(s) == DigitsValue(Strip(s))

RECURSIVE IntToStr(_)
\* str(n) for n >= 0
IntToStr(n) ==
    IF n < 10 THEN <<Digits[n + 1]>>
    ELSE IntToStr(n \div 10) \o <<Digits[(n % 10) + 1]>>

\* json.dump({'alive': b}, fp): the text written to fp
JsonDumpAlive(b) ==
    <<"{", "\"alive\"", ": ", IF b THEN "true" ELSE "false", "}">>

\* json.dump({'pid': n}, fp): the text written to fp
JsonDumpPid(n) == <<"{", "\"pid\"", ": ">> \o IntToStr(n) \o <<"}">>

----------------------------------------------------------------------------
(* Requests *)

PortArg == <<"--port", "=", "8888">>

ShellArg == <<";", " ", "evil">>

ArgValues == {PortArg, ShellArg}

ArgLists == UNION {[1..n -> ArgValues] : n \in 0..MaxArgs}

EnvKeys == {"JPY_API_TOKEN", "PYTHONPATH", "HOME"}

EnvValue(k) ==
    CASE k = "JPY_API_TOKEN" -> <<"abc">>
      [] k = "PYTHONPATH" -> <<"/evil">>
      [] OTHER -> <<"/home/u">>

Envs == {[k \in K |-> EnvValue(k)] : K \in SUBSET EnvKeys}

EmptyEnv == [k \in {} |-> <<>>]

SignalValues == {0, 1, 2, 9, 15}

Request(kind, keys, action, pid, signal, args, e) ==
    [kind |-> kind, keys |-> keys, action |-> action, pid |-> pid,
     signal |-> signal, args |-> args, env |-> e]

\* stdin that is not JSON, or JSON that is not an object
NonObjectRequests ==
    {Request(k, {}, "", 0, 0, <<>>, EmptyEnv) : k \in {"notjson", "nonobject"}}

\* objects without an action, or with an unknown one
NoActionRequests ==
    {Request("object", K, "", 1234, 0, <<>>, EmptyEnv) :
        K \in {{}, {"pid", "signal"}}}
    \cup {Request("object", {"action"}, "status", 0, 0, <<>>, EmptyEnv)}

KillRequests ==
    {Request("object", {"action", "pid", "signal"}, "kill", 1234, s, <<>>,
             EmptyEnv) : s \in SignalValues}
    \cup {Request("object", {"action"} \cup K, "kill", 1234, 0, <<>>,
                  EmptyEnv) : K \in {{}, {"pid"}, {"signal"},
                                       {"pid", "signal", "env"}}}

SpawnRequests ==
    {Request("object", {"action", "args", "env"}, "spawn", 0, 0, a, e) :
        a \in ArgLists, e \in Envs}
    \cup {Request("object", {"action", "args"}, "spawn", 0, 0, a, EmptyEnv) :
             a \in {<<>>, <<PortArg>>}}
    \cup {Request("object", {"action", "env"}, "spawn", 0, 0, <<>>, e) :
             e \in {EmptyEnv, [k \in {"JPY_API_TOKEN"} |-> EnvValue(k)]}}

Requests ==
    NonObjectRequests \cup NoActionRequests \cup KillRequests
        \cup SpawnRequests

----------------------------------------------------------------------------
(* Outcomes of the external commands *)

JobStates == {"R", "Q", "C", "E"}

\* qstat: could not be started, exited non-zero, or printed a record that
\* has a job_state field (with the given text) or has none
QstatOutcomes ==
    {[launched |-> FALSE, rc |-> 0, job_state |-> None]}
    \cup {[launched |-> TRUE, rc |-> 153, job_state |-> None]}
    \cup {[launched |-> TRUE, rc |-> 0, job_state |-> j] :
             j \in {None} \cup {Some(x) : x \in JobStates}}

QdelOutcomes ==
    {[launched |-> FALSE, rc |-> 0]}
    \cup {[launched |-> TRUE, rc |-> c] : c \in {0, 1, 153}}

NonAscii == "\\xe9"

OutAlphabet == {"0", "5", ".", " ", NonAscii}

Outputs == UNION {[1..n -> OutAlphabet] : n \in 0..MaxOut}

NoQsub == [launched |-> FALSE, rc |-> 0, output |-> <<>>, env |-> EmptyEnv]

QsubOutcomes(e) ==
    {[launched |-> FALSE, rc |-> 0, output |-> <<>>, env |-> e]}
    \cup [launched : {TRUE}, rc : {0, 1}, output : Outputs, env : {e}]

----------------------------------------------------------------------------
(* spawn(): building the payload *)

SysExecutable == <<"python">>

LauncherPrefix == <<SysExecutable, <<"-m">>, <<"jupyterhub.singleuser">>>>

User == <<"user">>

mem == 1

hours == 6

RECURSIVE PortLoop(_, _)
\* for line in args: if "--port=" in line: port = line.split("=")[1]
PortLoop(args, p) ==
    IF args = <<>> THEN p
    ELSE PortLoop(Tail(args),
                  IF Contains(Head(args), <<"--port", "=">>)
                  THEN Some(Split(Head(args), "=")[2])
                  ELSE p)

\* a port extraction that falls back to a default port when no line matched
ExtractPortDefault(args) ==
    IF PortLoop(args, None) = None THEN Some(<<"8888">>)
    ELSE PortLoop(args, None)

\* the local `port` after the loop: None when no line matched
ExtractPort(args) == PortLoop(args, None)

\* serialpbs.substitute(dict(mem=mem, hours=hours, id=id, port=port, ...))
SerialPbsTemplate(h, id, p) ==
    <<"\n", "#PBS -S /bin/bash", "\n",
      "##PBS -l nodes=1:ppn=1,walltime=">> \o IntToStr(h)
        \o <<":00:00,pvmem=">> \o IntToStr(mem) \o <<"gb", "\n",
      "#PBS -l walltime=">> \o IntToStr(h) \o <<":00:00", "\n",
      "#PBS -N jupyter", "\n", "#PBS -r n", "\n",
      "#PBS -o /tmp/notebook_">> \o id \o <<".log", "\n",
      "#PBS -j oe", "\n", "#PBS -V", "\n", "\n",
      "module", " ", "purge", "\n",
      "module", " ", "load", " ", "python/3.4-anaconda3", "\n",
      "source", " ", "activate", " ", "/prodigfs/jupyter/anaconda3/", "\n",
      "\n", "# setup tunnel for notebook", "\n",
      "ssh", " ", "-N", " ", "-f", " ", "-R", " ">> \o p
        \o <<":localhost:">> \o p \o <<" ", "jupyter-test.ipsl.upmc.fr", "\n",
      "# setup tunnel for API", "\n",
      "ssh", " ", "-N", " ", "-f", " ", "-L", " ", "8081:localhost:8081",
      " ", "jupyter-test.ipsl.upmc.fr", "\n", "\n", " ", " ", " ", " ">>

\* "export %s='%s';" % (k, v)
ExportEntry(k, v) == <<"export", " ", k, "=", "'">> \o v \o <<"'", ";">>

\* a command built with the caller's args ahead of the launcher
BuildCmdArgsFirst(args, e) ==
    <<ExportEntry("JPY_API_TOKEN", e["JPY_API_TOKEN"])>>
        \o args \o LauncherPrefix

\* cmd = [sys.executable, '-m', 'jupyterhub.singleuser'] + args, then
\* cmd.insert(0, "export JPY_API_TOKEN='...';")
BuildCmd(args, e) ==
    <<ExportEntry("JPY_API_TOKEN", e["JPY_API_TOKEN"])>>
        \o LauncherPrefix \o args

\* cmd_s = ' '.join(cmd)
CmdString(c) == Join(<<" ">>, c)

\* the payload handed to qsub on its standard input
Payload(args, e) ==
    SerialPbsTemplate(hours, User, Get(ExtractPort(args)))
        \o <<"\n", "\n">> \o CmdString(BuildCmd(args, e))

\* a sanitization that warns but leaves the key in place
SanitizeEnvKeep(e) == e

\* a sanitization that keeps only the keys the mediator itself reads
SanitizeEnvTokenOnly(e) == [k \in DOMAIN e \cap {"JPY_API_TOKEN"} |-> e[k]]

\* if 'PYTHONPATH' in env: env.pop('PYTHONPATH')
SanitizeEnv(e) == [k \in DOMAIN e \ {"PYTHONPATH"} |-> e[k]]

----------------------------------------------------------------------------
(* kill(): liveness from the external commands *)

\* a liveness test that also counts queued jobs as alive
JobAliveQueued(s) == s \in {"R", "Q"}

\* if (state == 'R'): alive = True else: alive = False
JobAlive(s) == s = "R"

\* a termination result with the return-code test inverted
AliveAfterQdelInverted(r, a) == IF r # 0 THEN Some(FALSE) ELSE a

\* if (rc == 0): alive = False
AliveAfterQdel(r, a) == IF r = 0 THEN Some(FALSE) ELSE a

\* finish(data, fp): json.dump writes the text to fp
Finish(fp, text) == fp \o text

Call(prog, by) == [prog |-> prog, by |-> by]

----------------------------------------------------------------------------
(* The state after the process has been started *)

Init ==
    /\ stdin \in Requests
    /\ pc = "main"
    /\ alive = None /\ state = None /\ rc = None
    /\ port = None /\ cmd = <<>> /\ serialpbs = <<>> /\ env = EmptyEnv
    /\ stdout = <<>> /\ exitStatus = -1
    /\ extCalls = <<>> /\ forks = 0
    /\ pipe = <<>> /\ wParent = FALSE /\ wChild = FALSE
    /\ cpc = "none" /\ childExit = -1
    /\ childStdio = "caller" /\ childPgrp = FALSE
    /\ qsub = NoQsub /\ qsubState = "none"
    /\ out = <<>> /\ jobid = <<>> /\ wbuf = <<>> /\ data = <<>>

\* an uncaught exception (or sys.exit(1)) in the parent
Raise == pc' = "exit" /\ exitStatus' = 1

\* an uncaught exception in the child: the process exits, which closes its
\* copy of the pipe writer
ChildRaise == cpc' = "exit" /\ childExit' = 1 /\ wChild' = FALSE

----------------------------------------------------------------------------
(* main() *)

\* kwargs = json.load(sys.stdin), sys.exit(1) on ValueError
MainLoad ==
    /\ pc = "main"
    /\ IF stdin.kind = "notjson" THEN Raise
       ELSE pc' = "dispatch" /\ UNCHANGED exitStatus
    /\ UNCHANGED <<stdin, killLocals, spawnLocals, stdout, extCalls, forks,
                   pipe, wParent, wChild, childVars, data>>

\* kill(**kwargs) binds exactly pid and signal
BindsKill(keys) == keys \ {"action"} = {"pid", "signal"}

\* spawn(**kwargs) binds exactly args and env
BindsSpawn(keys) == keys \ {"action"} = {"args", "env"}

\* action = kwargs.pop('action') and the call of kill or spawn
MainDispatch ==
    /\ pc = "dispatch"
    /\ IF stdin.kind # "object" \/ "action" \notin stdin.keys THEN Raise
       ELSE IF stdin.action = "kill" /\ BindsKill(stdin.keys)
            THEN pc' = "kill" /\ UNCHANGED exitStatus
       ELSE IF stdin.action = "spawn" /\ BindsSpawn(stdin.keys)
            THEN pc' = "spawn" /\ UNCHANGED exitStatus
       ELSE Raise
    /\ UNCHANGED <<stdin, killLocals, spawnLocals, stdout, extCalls, forks,
                   pipe, wParent, wChild, childVars, data>>

----------------------------------------------------------------------------
(* kill(pid, signal) *)

\* if (signal == 0): qstat -x, parse job_state, set alive
KillStatus ==
    /\ pc = "kill"
    /\ IF stdin.signal = 0
       THEN \E q \in QstatOutcomes :
              /\ extCalls' = Append(extCalls, Call("qstat", "parent"))
              /\ IF ~q.launched \/ q.rc # 0 \/ q.job_state = None
                 THEN Raise /\ UNCHANGED <<state, alive>>
                 ELSE /\ state' = q.job_state
                      /\ alive' = Some(JobAlive(Get(q.job_state)))
                      /\ pc' = "kill_signal"
                      /\ UNCHANGED exitStatus
       ELSE pc' = "kill_signal"
            /\ UNCHANGED <<extCalls, state, alive, exitStatus>>
    /\ UNCHANGED <<stdin, rc, spawnLocals, stdout, forks, pipe, wParent,
                   wChild, childVars, data>>

\* a termination branch taken for every signal, the probe included
KillSignalAlways ==
    /\ pc = "kill_signal"
    /\ \E d \in QdelOutcomes :
         /\ extCalls' = Append(extCalls, Call("qdel", "parent"))
         /\ IF ~d.launched
            THEN Raise /\ UNCHANGED <<rc, alive>>
            ELSE /\ rc' = Some(d.rc)
                 /\ alive' = AliveAfterQdel(d.rc, alive)
                 /\ pc' = "kill_finish"
                 /\ UNCHANGED exitStatus
    /\ UNCHANGED <<stdin, state, spawnLocals, stdout, forks, pipe, wParent,
                   wChild, childVars, data>>

\* if (signal in [2, 9, 15]): qdel, alive = False when it returns 0
KillSignal ==
    /\ pc = "kill_signal"
    /\ IF stdin.signal \in {2, 9, 15}
       THEN \E d \in QdelOutcomes :
              /\ extCalls' = Append(extCalls, Call("qdel", "parent"))
              /\ IF ~d.launched
                 THEN Raise /\ UNCHANGED <<rc, alive>>
                 ELSE /\ rc' = Some(d.rc)
                      /\ alive' = AliveAfterQdel(d.rc, alive)
                      /\ pc' = "kill_finish"
                      /\ UNCHANGED exitStatus
       ELSE pc' = "kill_finish"
            /\ UNCHANGED <<extCalls, rc, alive, exitStatus>>
    /\ UNCHANGED <<stdin, state, spawnLocals, stdout, forks, pipe, wParent,
                   wChild, childVars, data>>

\* a result that reports alive = false when alive was never bound
KillFinishDefault ==
    /\ pc = "kill_finish"
    /\ stdout' = Finish(stdout, JsonDumpAlive(IF alive = None THEN FALSE
                                               ELSE Get(alive)))
    /\ pc' = "exit"
    /\ exitStatus' = 0
    /\ UNCHANGED <<stdin, killLocals, spawnLocals, extCalls, forks, pipe,
                   wParent, wChild, childVars, data>>

\* finish({'alive': alive}), then main() returns
KillFinish ==
    /\ pc = "kill_finish"
    /\ IF alive = None
       THEN Raise /\ UNCHANGED stdout
       ELSE /\ stdout' = Finish(stdout, JsonDumpAlive(Get(alive)))
            /\ pc' = "exit"
            /\ exitStatus' = 0
    /\ UNCHANGED <<stdin, killLocals, spawnLocals, extCalls, forks, pipe,
                   wParent, wChild, childVars, data>>

----------------------------------------------------------------------------
(* spawn(args, env): the part before the fork *)

\* port extraction, payload and command construction, env sanitization
SpawnPrepare ==
    /\ pc = "spawn"
    /\ IF ExtractPort(stdin.args) = None
          \/ "JPY_API_TOKEN" \notin DOMAIN stdin.env
       THEN Raise /\ UNCHANGED spawnLocals
       ELSE /\ port' = ExtractPort(stdin.args)
            /\ cmd' = BuildCmd(stdin.args, stdin.env)
            /\ serialpbs' = Payload(stdin.args, stdin.env)
            /\ env' = SanitizeEnv(stdin.env)
            /\ pc' = "fork"
            /\ UNCHANGED exitStatus
    /\ UNCHANGED <<stdin, killLocals, stdout, extCalls, forks, pipe, wParent,
                   wChild, childVars, data>>

\* r, w = os.pipe(); os.fork()
SpawnFork ==
    /\ pc = "fork"
    /\ forks' = forks + 1
    /\ wParent' = TRUE /\ wChild' = TRUE
    /\ pc' = "parent_close"
    /\ cpc' = "child_detach"
    /\ UNCHANGED <<stdin, killLocals, spawnLocals, stdout, exitStatus,
                   extCalls, pipe, childExit, childStdio, childPgrp, qsub,
                   qsubState, out, jobid, wbuf, data>>

----------------------------------------------------------------------------
(* spawn(): the parent after the fork *)

\* a parent that goes on to read without closing its copy of the writer
ParentKeepsW ==
    /\ pc = "parent_close"
    /\ pc' = "parent_read"
    /\ UNCHANGED <<stdin, killLocals, spawnLocals, stdout, exitStatus,
                   extCalls, forks, pipe, wParent, wChild, childVars, data>>

\* os.close(w)
ParentCloseW ==
    /\ pc = "parent_close"
    /\ wParent' = FALSE
    /\ pc' = "parent_read"
    /\ UNCHANGED <<stdin, killLocals, spawnLocals, stdout, exitStatus,
                   extCalls, forks, pipe, wChild, childVars, data>>

\* a read that returns what is in the pipe without waiting for end-of-stream
ParentReadEarly ==
    /\ pc = "parent_read"
    /\ data' = pipe
    /\ pc' = "parent_write"
    /\ UNCHANGED <<stdin, killLocals, spawnLocals, stdout, exitStatus,
                   extCalls, forks, pipe, wParent, wChild, childVars>>

\* r.read(): returns at end-of-stream, when no copy of the writer is open
ParentRead ==
    /\ pc = "parent_read"
    /\ ~wParent /\ ~wChild
    /\ data' = pipe
    /\ pc' = "parent_write"
    /\ UNCHANGED <<stdin, killLocals, spawnLocals, stdout, exitStatus,
                   extCalls, forks, pipe, wParent, wChild, childVars>>

\* sys.stdout.write(...), then main() returns
ParentWrite ==
    /\ pc = "parent_write"
    /\ stdout' = stdout \o data
    /\ pc' = "exit"
    /\ exitStatus' = 0
    /\ UNCHANGED <<stdin, killLocals, spawnLocals, extCalls, forks, pipe,
                   wParent, wChild, childVars, data>>

----------------------------------------------------------------------------
(* spawn(): the detached child *)

\* os.close(r); os.setpgrp(); standard streams to os.devnull
ChildDetach ==
    /\ cpc = "child_detach"
    /\ childPgrp' = TRUE
    /\ childStdio' = "null"
    /\ cpc' = "child_popen"
    /\ UNCHANGED <<stdin, pc, killLocals, spawnLocals, stdout, exitStatus,
                   extCalls, forks, pipe, wParent, wChild, childExit, qsub,
                   qsubState, out, jobid, wbuf, data>>

\* a submission that is attempted once more when it could not be started
ChildPopenRetry ==
    /\ cpc = "child_popen"
    /\ qsub' \in QsubOutcomes(env)
    /\ extCalls' = Append(extCalls, Call("qsub", "child"))
    /\ IF qsub'.launched
       THEN /\ qsubState' = "running"
            /\ cpc' = "child_communicate"
            /\ UNCHANGED <<childExit, wChild>>
       ELSE IF extCalls = <<>>
       THEN UNCHANGED <<cpc, childExit, wChild, qsubState>>
       ELSE ChildRaise /\ UNCHANGED qsubState
    /\ UNCHANGED <<stdin, pc, killLocals, spawnLocals, stdout, exitStatus,
                   forks, pipe, wParent, childStdio, childPgrp, out, jobid,
                   wbuf, data>>

\* p = Popen('qsub', env=env, ...)
ChildPopen ==
    /\ cpc = "child_popen"
    /\ qsub' \in QsubOutcomes(env)
    /\ extCalls' = Append(extCalls, Call("qsub", "child"))
    /\ IF qsub'.launched
       THEN /\ qsubState' = "running"
            /\ cpc' = "child_communicate"
            /\ UNCHANGED <<childExit, wChild>>
       ELSE ChildRaise /\ UNCHANGED qsubState
    /\ UNCHANGED <<stdin, pc, killLocals, spawnLocals, stdout, exitStatus,
                   forks, pipe, wParent, childStdio, childPgrp, out, jobid,
                   wbuf, data>>

\* the submission command terminates (a step of the environment)
QsubTerminates ==
    /\ qsubState = "running"
    /\ qsubState' = "zombie"
    /\ UNCHANGED <<stdin, pc, killLocals, spawnLocals, stdout, exitStatus,
                   extCalls, forks, pipe, wParent, wChild, cpc, childExit,
                   childStdio, childPgrp, qsub, out, jobid, wbuf, data>>

\* a capture that reads the output but does not wait for the subprocess
ChildCommunicateNoReap ==
    /\ cpc = "child_communicate"
    /\ qsubState = "zombie"
    /\ out' = Strip(qsub.output)
    /\ cpc' = "child_parse"
    /\ UNCHANGED <<stdin, pc, killLocals, spawnLocals, stdout, exitStatus,
                   extCalls, forks, pipe, wParent, wChild, childExit,
                   childStdio, childPgrp, qsub, qsubState, jobid, wbuf, data>>

\* out = p.communicate(serialpbs.encode())[0].strip(): reads the output to
\* its end and waits for the subprocess
ChildCommunicate ==
    /\ cpc = "child_communicate"
    /\ qsubState = "zombie"
    /\ qsubState' = "reaped"
    /\ out' = Strip(qsub.output)
    /\ cpc' = "child_parse"
    /\ UNCHANGED <<stdin, pc, killLocals, spawnLocals, stdout, exitStatus,
                   extCalls, forks, pipe, wParent, wChild, childExit,
                   childStdio, childPgrp, qsub, jobid, wbuf, data>>

\* out.decode('ascii') succeeds
IsAscii(s) == NonAscii \notin Range(s)

\* a job id taken from the last dot-delimited token
JobIdLastToken(s) == Split(s, ".")[Len(Split(s, "."))]

\* out.decode('ascii').split('.')[0]
JobIdOf(s) == Split(s, ".")[1]

\* jobid = out.decode('ascii').split('.')[0]
ChildParse ==
    /\ cpc = "child_parse"
    /\ IF IsAscii(out)
       THEN /\ jobid' = JobIdOf(out)
            /\ cpc' = "child_finish"
            /\ UNCHANGED <<childExit, wChild>>
       ELSE ChildRaise /\ UNCHANGED jobid
    /\ UNCHANGED <<stdin, pc, killLocals, spawnLocals, stdout, exitStatus,
                   extCalls, forks, pipe, wParent, childStdio, childPgrp,
                   qsub, qsubState, out, wbuf, data>>

\* w = os.fdopen(w, 'w'); finish({'pid': int(jobid)}, w)
ChildFinish ==
    /\ cpc = "child_finish"
    /\ IF IsIntLiteral(jobid)
       THEN /\ wbuf' = Finish(wbuf, JsonDumpPid(ParseInt(jobid)))
            /\ cpc' = "child_close"
            /\ UNCHANGED <<childExit, wChild>>
       ELSE ChildRaise /\ UNCHANGED wbuf
    /\ UNCHANGED <<stdin, pc, killLocals, spawnLocals, stdout, exitStatus,
                   extCalls, forks, pipe, wParent, childStdio, childPgrp,
                   qsub, qsubState, out, jobid, data>>

\* w.close(): flushes the buffered text into the pipe and closes the writer
ChildCloseW ==
    /\ cpc = "child_close"
    /\ pipe' = pipe \o wbuf
    /\ wbuf' = <<>>
    /\ wChild' = FALSE
    /\ cpc' = "child_wait"
    /\ UNCHANGED <<stdin, pc, killLocals, spawnLocals, stdout, exitStatus,
                   extCalls, forks, wParent, childExit, childStdio,
                   childPgrp, qsub, qsubState, out, jobid, data>>

\* p.wait(), then main() returns in the child
ChildWait ==
    /\ cpc = "child_wait"
    /\ qsubState \in {"zombie", "reaped"}
    /\ qsubState' = "reaped"
    /\ cpc' = "exit"
    /\ childExit' = 0
    /\ UNCHANGED <<stdin, pc, killLocals, spawnLocals, stdout, exitStatus,
                   extCalls, forks, pipe, wParent, wChild, childStdio,
                   childPgrp, qsub, out, jobid, wbuf, data>>

----------------------------------------------------------------------------

Next ==
    \/ MainLoad
    \/ MainDispatch
    \/ KillStatus
    \/ KillSignal
    \/ KillFinish
    \/ SpawnPrepare
    \/ SpawnFork
    \/ ParentCloseW
    \/ ParentRead
    \/ ParentWrite
    \/ ChildDetach
    \/ ChildPopen
    \/ QsubTerminates
    \/ ChildCommunicate
    \/ ChildParse
    \/ ChildFinish
    \/ ChildCloseW
    \/ ChildWait

Spec == Init /\ [][Next]_vars

----------------------------------------------------------------------------
(* Reading results back: what a caller that parses standard output sees *)

\* a JSON integer: decimal digits, no leading zero
IsJsonNumber(t) ==
    /\ t # <<>>
    /\ \A i \in 1..Len(t) : t[i] \in DigitSet
    /\ (Len(t) > 1 => t[1] # "0")

\* the text is exactly one {"alive": <bool>} object
IsAliveResult(t) ==
    /\ Len(t) = 5
    /\ t[1] = "{" /\ t[2] = "\"alive\"" /\ t[3] = ": " /\ t[5] = "}"
    /\ t[4] \in {"true", "false"}

\* the text is exactly one {"pid": <int>} object
IsPidResult(t) ==
    /\ Len(t) >= 5
    /\ t[1] = "{" /\ t[2] = "\"pid\"" /\ t[3] = ": " /\ t[Len(t)] = "}"
    /\ IsJsonNumber(SubSeq(t, 4, Len(t) - 1))

IsJsonResult(t) == IsAliveResult(t) \/ IsPidResult(t)

\* the request is a well-formed kill request
IsKill == stdin.kind = "object" /\ "action" \in stdin.keys
          /\ stdin.action = "kill" /\ BindsKill(stdin.keys)

\* the request is a spawn request with both of its fields
IsSpawn == stdin.kind = "object" /\ "action" \in stdin.keys
           /\ stdin.action = "spawn" /\ BindsSpawn(stdin.keys)

Called(prog) == \E i \in 1..Len(extCalls) : extCalls[i].prog = prog

----------------------------------------------------------------------------
(* C1 *)

\* C1: when the process started by the caller has exited, either its exit
\* status is 0 and standard output holds exactly one well-formed JSON result,
\* or its exit status is non-zero and standard output is empty.
C1_BinaryOutcome ==
    pc = "exit" =>
        \/ exitStatus = 0 /\ IsJsonResult(stdout)
        \/ exitStatus # 0 /\ stdout = <<>>

----------------------------------------------------------------------------
(* C2 *)

\* C2: a kill request with signal 0 for which the status query reported a
\* job state emits a result whose alive field is true exactly when the
\* reported state is 'R'.
C2_ProbeAliveIffRunning ==
    (IsKill /\ stdin.signal = 0 /\ pc = "exit" /\ state # None) =>
        /\ exitStatus = 0
        /\ IsAliveResult(stdout)
        /\ (stdout[4] = "true" <=> Get(state) = "R")

\* a probe of a running job has answered alive = true
C2_Witness ==
    /\ IsKill /\ stdin.signal = 0 /\ pc = "exit"
    /\ state = Some("R")
    /\ stdout = <<"{", "\"alive\"", ": ", "true", "}">>

----------------------------------------------------------------------------
(* C3 *)

\* C3: a kill request with signal 2, 9 or 15 whose termination command
\* returned 0 emits the result {alive: false}.
C3_TerminatedNotAlive ==
    (IsKill /\ stdin.signal \in {2, 9, 15} /\ pc = "exit" /\ rc = Some(0)) =>
        /\ exitStatus = 0
        /\ IsAliveResult(stdout)
        /\ stdout[4] = "false"

\* a termination request confirmed by exit code 0 has been answered
C3_Witness ==
    /\ IsKill /\ stdin.signal = 9 /\ pc = "exit" /\ rc = Some(0)
    /\ Called("qdel")
    /\ stdout = <<"{", "\"alive\"", ": ", "false", "}">>

----------------------------------------------------------------------------
(* C4 *)

\* C4: a kill request with signal 2, 9 or 15 whose termination command
\* returned a non-zero code still ends with exit status 0 and exactly one
\* {alive: boolean} result on standard output.
C4_FailedTerminationNotFatal ==
    (IsKill /\ stdin.signal \in {2, 9, 15} /\ pc = "exit"
        /\ rc # None /\ rc # Some(0)) =>
        exitStatus = 0 /\ IsAliveResult(stdout)

----------------------------------------------------------------------------
(* C5 *)

\* C5: a kill request with signal 0 whose status query failed or reported
\* no state field ends with the result {alive: false}.
C5_NoRecordNotAlive ==
    (IsKill /\ stdin.signal = 0 /\ pc = "exit" /\ Called("qstat")
        /\ state = None) =>
        /\ exitStatus = 0
        /\ IsAliveResult(stdout)
        /\ stdout[4] = "false"

----------------------------------------------------------------------------
(* C6 *)

\* some entry of args contains --port=
HasPortEntry(args) ==
    \E i \in 1..Len(args) : Contains(args[i], <<"--port", "=">>)

\* the payload has been built
Prepared == IsSpawn /\ pc \notin {"main", "dispatch", "spawn"} /\ forks > 0

\* C6 as stated: the launch command begins with the fixed interpreter and
\* launcher elements and the caller's args follow them; nothing that the
\* caller controls precedes the fixed prefix.
C6_Original ==
    Prepared =>
        /\ SubSeq(cmd, 1, Len(LauncherPrefix)) = LauncherPrefix
        /\ SubSeq(cmd, Len(LauncherPrefix) + 1, Len(cmd)) = stdin.args

\* C6 (amended): the launch command is one export entry for JPY_API_TOKEN
\* built from the request's env, then the fixed interpreter, -m and launcher
\* module, then all caller-supplied args in their original order and
\* unmodified; it is emitted, joined by spaces, at the end of the payload.
C6_PrefixThenArgs ==
    Prepared =>
        /\ Len(cmd) = 1 + Len(LauncherPrefix) + Len(stdin.args)
        /\ cmd[1] = <<"export", " ", "JPY_API_TOKEN", "=", "'">>
                        \o stdin.env["JPY_API_TOKEN"] \o <<"'", ";">>
        /\ SubSeq(cmd, 2, 1 + Len(LauncherPrefix))
              = <<SysExecutable, <<"-m">>, <<"jupyterhub.singleuser">>>>
        /\ \A i \in 1..Len(stdin.args) :
              cmd[1 + Len(LauncherPrefix) + i] = stdin.args[i]
        /\ Len(serialpbs) >= Len(CmdString(cmd))
        /\ SubSeq(serialpbs, Len(serialpbs) - Len(CmdString(cmd)) + 1,
                  Len(serialpbs)) = CmdString(cmd)

\* a command has been built from two different args, the port entry last
C6_Witness ==
    /\ Prepared
    /\ stdin.args = <<ShellArg, PortArg>>
    /\ Len(cmd) = 6
    /\ cmd[6] = PortArg

----------------------------------------------------------------------------
(* C7 *)

ShellSeparators == {";", "\n"}

ShellBuiltins == {<<"export">>}

AddWord(command, word) ==
    IF word = <<>> THEN command ELSE Append(command, word)

EndCommand(command, word) ==
    IF AddWord(command, word) = <<>> THEN <<>>
    ELSE <<AddWord(command, word)>>

RECURSIVE ShellCommands(_, _, _, _)
\* the simple commands /bin/bash reads from a text: words are split at
\* unquoted blanks, commands at unquoted separators; single quotes group
ShellCommands(text, quoted, word, command) ==
    IF text = <<>> THEN EndCommand(command, word)
    ELSE LET c == Head(text)
             rest == Tail(text)
         IN  IF c = "'"
             THEN ShellCommands(rest, ~quoted, word, command)
             ELSE IF quoted
             THEN ShellCommands(rest, quoted, Append(word, c), command)
             ELSE IF c = " "
             THEN ShellCommands(rest, quoted, <<>>, AddWord(command, word))
             ELSE IF c \in ShellSeparators
             THEN EndCommand(command, word)
                      \o ShellCommands(rest, FALSE, <<>>, <<>>)
             ELSE ShellCommands(rest, quoted, Append(word, c), command)

RECURSIVE ProgramsOf(_)
\* the programs executed by a sequence of simple commands
ProgramsOf(commands) ==
    IF commands = <<>> THEN <<>>
    ELSE (IF Head(commands)[1] \in ShellBuiltins THEN <<>>
          ELSE <<Head(commands)[1]>>) \o ProgramsOf(Tail(commands))

\* the programs the command line of the payload runs
CommandLinePrograms(c) ==
    ProgramsOf(ShellCommands(CmdString(c), FALSE, <<>>, <<>>))

\* C7: whatever args contains, the command line of the payload runs the
\* same programs: the interpreter with the single-user-server launcher,
\* and nothing else.
C7_OnlyLauncherRuns ==
    Prepared => CommandLinePrograms(cmd) = <<SysExecutable>>

----------------------------------------------------------------------------
(* C8 *)

\* C8: the environment handed to the submission command never has the
\* PYTHONPATH key; the key is gone from env once the process has forked; and
\* a spawn request that has a port entry and the token is not ended before
\* the fork because its env has PYTHONPATH.
C8_NoPythonPath ==
    /\ Called("qsub") => "PYTHONPATH" \notin DOMAIN qsub.env
    /\ forks > 0 => "PYTHONPATH" \notin DOMAIN env
    /\ (/\ IsSpawn /\ pc = "exit"
        /\ HasPortEntry(stdin.args)
        /\ {"PYTHONPATH", "JPY_API_TOKEN"} \subseteq DOMAIN stdin.env)
           => forks = 1 /\ Called("qsub")

\* a request whose env had PYTHONPATH and HOME has been submitted with HOME
C8_Witness ==
    /\ IsSpawn
    /\ {"PYTHONPATH", "HOME"} \subseteq DOMAIN stdin.env
    /\ Called("qsub") /\ qsub.launched
    /\ "HOME" \in DOMAIN qsub.env

----------------------------------------------------------------------------
(* C9 *)

\* the request is a protocol error
ProtocolError ==
    \/ stdin.kind # "object"
    \/ "action" \notin stdin.keys
    \/ stdin.action \notin {"kill", "spawn"}
    \/ stdin.action = "kill" /\ stdin.keys # {"action", "pid", "signal"}
    \/ stdin.action = "spawn" /\ stdin.keys # {"action", "args", "env"}
    \/ stdin.action = "spawn" /\ ~HasPortEntry(stdin.args)

\* C9: a request that is a protocol error never writes to standard output,
\* never forks and never invokes an external command; it never gets past
\* the construction of the payload, and it exits with a non-zero status.
C9_ProtocolErrorFatal ==
    ProtocolError =>
        /\ stdout = <<>>
        /\ forks = 0
        /\ extCalls = <<>>
        /\ cpc = "none"
        /\ pc \in {"main", "dispatch", "spawn", "exit"}
        /\ (pc = "exit" => exitStatus > 0)

\* a spawn request with both fields and the token but no port entry has
\* exited with a non-zero status
C9_Witness ==
    /\ IsSpawn /\ ~HasPortEntry(stdin.args) /\ stdin.args # <<>>
    /\ "JPY_API_TOKEN" \in DOMAIN stdin.env
    /\ pc = "exit" /\ exitStatus = 1 /\ stdout = <<>>

----------------------------------------------------------------------------
(* C10 *)

\* the first dot-delimited token of the trimmed output is an integer
FirstTokenIsInt(o) ==
    LET t == Strip(o)
        k == IF \E i \in 1..Len(t) : t[i] = "."
             THEN (CHOOSE i \in 1..Len(t) :
                       t[i] = "." /\ \A j \in 1..(i - 1) : t[j] # ".") - 1
             ELSE Len(t)
        first == Strip(SubSeq(t, 1, k))
    IN  first # <<>> /\ \A i \in 1..Len(first) : first[i] \in DigitSet

\* C10: when the submission command failed (could not be started or exited
\* non-zero) or the first dot-delimited token of its output is not an
\* integer, the child puts nothing into the result pipe; and what the
\* parent relays is empty or one complete result.
C10_NothingOnFailure ==
    /\ (Called("qsub") /\ qsubState \in {"none", "reaped"}
        /\ (~qsub.launched \/ qsub.rc # 0 \/ ~FirstTokenIsInt(qsub.output)))
           => pipe = <<>> /\ wbuf = <<>>
    /\ IsSpawn => (stdout = <<>> \/ IsPidResult(stdout))


----------------------------------------------------------------------------
(* C11 *)

\* the output, trimmed, is <integer>.<rest>
HasJobIdForm(o) ==
    LET t == Strip(o)
    IN  \E k \in 2..Len(t) :
           /\ t[k] = "."
           /\ \A i \in 1..(k - 1) : t[i] \in DigitSet

\* the integer written in front of the first dot of an output of that form
LeadingInteger(o) ==
    LET t == Strip(o)
        k == CHOOSE i \in 2..Len(t) :
                 t[i] = "." /\ \A j \in 1..(i - 1) : t[j] # "."
    IN  DigitsValue(SubSeq(t, 1, k - 1))

\* the integer of a {"pid": <int>} result
PidOfResult(t) == DigitsValue(SubSeq(t, 4, Len(t) - 1))

\* the parent of a spawn has exited after the submission command printed o
SpawnAnswered ==
    IsSpawn /\ forks = 1 /\ pc = "exit" /\ Called("qsub") /\ qsub.launched

\* C11 as stated: whenever the submission command printed <integer>.<rest>,
\* the result on the caller's standard output is {pid: <integer>}.
C11_Original ==
    (SpawnAnswered /\ HasJobIdForm(qsub.output)) =>
        /\ IsPidResult(stdout)
        /\ PidOfResult(stdout) = LeadingInteger(qsub.output)

\* C11 (amended): whenever the submission command printed ASCII-only output
\* of the form <integer>.<rest>, optionally surrounded by whitespace, the
\* result on the caller's standard output is {pid: <integer>}, the integer
\* being the first dot-delimited token of the trimmed output.
C11_PidIsFirstToken ==
    (SpawnAnswered /\ HasJobIdForm(qsub.output) /\ IsAscii(qsub.output)) =>
        /\ exitStatus = 0
        /\ IsPidResult(stdout)
        /\ PidOfResult(stdout) = LeadingInteger(qsub.output)

\* the submission command printed "05." and the caller received {"pid": 5}
C11_Witness ==
    /\ SpawnAnswered
    /\ qsub.output = <<"0", "5", ".">>
    /\ stdout = <<"{", "\"pid\"", ": ", "5", "}">>


----------------------------------------------------------------------------
(* C12 *)

\* C12: in a spawn, the parent has read the pipe only at end-of-stream (no
\* copy of the writer open), it writes to its standard output and exits
\* only after that read, and what it writes is exactly what the child put
\* into the pipe; the child's standard streams point to the null device
\* before it invokes anything or produces any output, so standard output
\* stays empty until the parent's relay.
C12_RelayAfterEndOfStream ==
    (IsSpawn /\ forks = 1) =>
        /\ pc \in {"parent_write", "exit"} =>
              ~wParent /\ ~wChild /\ data = pipe
        /\ pc = "exit" => stdout = pipe /\ exitStatus = 0
        /\ pc # "exit" => stdout = <<>> /\ exitStatus = -1
        /\ (Called("qsub") \/ wbuf # <<>> \/ pipe # <<>>) =>
              childStdio = "null"
        /\ cpc \notin {"none", "child_detach"} => childStdio = "null"

\* the parent has relayed a result that the child wrote and closed
C12_Witness ==
    /\ IsSpawn /\ forks = 1 /\ pc = "exit"
    /\ pipe # <<>> /\ stdout = pipe
    /\ cpc = "child_wait"


----------------------------------------------------------------------------
(* C13 *)

\* C13: in the spawn child, the submission command is invoked only after the
\* detach (own process group, standard streams on the null device); the
\* result is written only after the output of the submission command has
\* been captured; the writer is closed, with the result in the pipe, before
\* the final wait; and the child has never exited while a submission
\* subprocess it started is unreaped.
C13_ChildOrder ==
    /\ Called("qsub") => childPgrp /\ childStdio = "null"
    /\ (wbuf # <<>> \/ pipe # <<>>) =>
          /\ Called("qsub") /\ qsub.launched
          /\ qsubState = "reaped"
          /\ out = Strip(qsub.output)
    /\ cpc = "child_close" => wChild /\ wbuf # <<>> /\ pipe = <<>>
    /\ cpc = "child_wait" => ~wChild /\ wbuf = <<>> /\ IsPidResult(pipe)
    /\ cpc = "exit" => ~wChild /\ qsubState \in {"none", "reaped"}
    /\ (cpc = "exit" /\ childExit = 0) => IsPidResult(pipe)

\* the child has gone through all of its steps
C13_Witness ==
    /\ cpc = "exit" /\ childExit = 0
    /\ qsubState = "reaped" /\ IsPidResult(pipe)


----------------------------------------------------------------------------
(* C14 *)

\* kill() has run to its end: the process has exited after the dispatch
KillEnded == IsKill /\ pc = "exit"

\* C14: for a kill request with signal 0, 2, 9 or 15, at most one external
\* command is ever invoked and exactly one by the time the process exits:
\* the status query for signal 0 and the termination command otherwise; a
\* request with signal 0 never invokes the termination command.
C14_OneExternalCommand ==
    (IsKill /\ stdin.signal \in {0, 2, 9, 15}) =>
        /\ Len(extCalls) <= 1
        /\ KillEnded =>
              extCalls = <<[prog |-> IF stdin.signal = 0 THEN "qstat"
                                     ELSE "qdel",
                            by |-> "parent"]>>
        /\ stdin.signal = 0 => ~Called("qdel")
        /\ stdin.signal # 0 => ~Called("qstat")
        /\ forks = 0

\* a liveness probe has ended having invoked the status query only
C14_Witness ==
    /\ KillEnded /\ stdin.signal = 0 /\ exitStatus = 0
    /\ Len(extCalls) = 1 /\ extCalls[1].prog = "qstat"


----------------------------------------------------------------------------
(* C15 *)

\* the number of invocations of prog so far
CallCount(prog) ==
    Cardinality({i \in 1..Len(extCalls) : extCalls[i].prog = prog})

\* C15: no invocation forks more than once and a request that is not a
\* spawn never forks; a spawn that got as far as the fork has forked exactly
\* once; the submission command is invoked by the child only, exactly once
\* by the time the child is past its Popen, and never by the parent; and no
\* external command is invoked a second time on any path.
C15_OnceOnly ==
    /\ forks <= 1
    /\ ~IsSpawn => forks = 0 /\ cpc = "none"
    /\ (IsSpawn /\ pc \notin {"main", "dispatch", "spawn", "fork"}) =>
          (forks = 1 \/ (pc = "exit" /\ exitStatus = 1))
    /\ (IsSpawn /\ pc = "exit" /\ exitStatus = 0) => forks = 1
    /\ \A i \in 1..Len(extCalls) :
          extCalls[i].prog = "qsub" <=> extCalls[i].by = "child"
    /\ cpc \in {"none", "child_detach", "child_popen"} => ~Called("qsub")
    /\ cpc \notin {"none", "child_detach", "child_popen"} =>
          CallCount("qsub") = 1
    /\ \A p \in {"qstat", "qdel", "qsub"} : CallCount(p) <= 1

\* a submission that could not be started has ended the child after one
\* attempt, and the parent has exited
C15_Witness ==
    /\ IsSpawn /\ forks = 1 /\ pc = "exit"
    /\ cpc = "exit" /\ ~qsub.launched
    /\ CallCount("qsub") = 1


----------------------------------------------------------------------------
(* C16 *)

\* the steps of the process started by the caller
ParentNext ==
    \/ MainLoad \/ MainDispatch
    \/ KillStatus \/ KillSignal \/ KillFinish
    \/ SpawnPrepare \/ SpawnFork
    \/ ParentCloseW \/ ParentRead \/ ParentWrite

\* the steps of the detached child
ChildNext ==
    \/ ChildDetach \/ ChildPopen \/ ChildCommunicate \/ ChildParse
    \/ ChildFinish \/ ChildCloseW \/ ChildWait

\* the start of an invocation whose spawn request has at most one entry in
\* args: after the payload is built, args are not read again
LiveInit == Init /\ Len(stdin.args) <= 1

\* both processes are scheduled fairly and the submission command, once
\* started, terminates
FairSpec ==
    /\ LiveInit /\ [][Next]_vars
    /\ WF_vars(ParentNext)
    /\ WF_vars(ChildNext)
    /\ WF_vars(QsubTerminates)

\* C16: in a spawn, once the process has forked, the parent and the child
\* both eventually exit, whatever the outcome of the submission.
C16_BothExit == (forks = 1) ~> (pc = "exit" /\ cpc = "exit")

\* the child failed on the job id before writing and both have exited
C16_Witness ==
    /\ forks = 1 /\ pc = "exit" /\ cpc = "exit"
    /\ childExit = 1 /\ qsub.launched /\ pipe = <<>>
    /\ jobid = <<>>


----------------------------------------------------------------------------
(* C17 *)

\* C17: the environment handed to the submission command has exactly the
\* keys of the request's env other than PYTHONPATH, each with the value the
\* request gave it; the same holds of env from the fork on.
C17_OnlyPythonPathRemoved ==
    /\ Called("qsub") =>
          /\ DOMAIN qsub.env = DOMAIN stdin.env \ {"PYTHONPATH"}
          /\ \A k \in DOMAIN qsub.env : qsub.env[k] = stdin.env[k]
    /\ forks > 0 =>
          /\ DOMAIN env = DOMAIN stdin.env \ {"PYTHONPATH"}
          /\ \A k \in DOMAIN env : env[k] = stdin.env[k]

\* a request with all three keys has been submitted with the two others
C17_Witness ==
    /\ DOMAIN stdin.env = {"JPY_API_TOKEN", "PYTHONPATH", "HOME"}
    /\ Called("qsub")
    /\ DOMAIN qsub.env = {"JPY_API_TOKEN", "HOME"}
    /\ qsub.env["HOME"] = <<"/home/u">>

----------------------------------------------------------------------------
(* C18 *)

\* C18: a kill request whose signal is none of 0, 2, 9, 15 never invokes
\* an external command, never forks, never writes to standard output, and
\* exits with a non-zero status.
C18_UnknownSignalFails ==
    (IsKill /\ stdin.signal \notin {0, 2, 9, 15}) =>
        /\ extCalls = <<>>
        /\ forks = 0
        /\ stdout = <<>>
        /\ pc = "exit" => exitStatus > 0

\* a kill request with signal 1 has gone through kill() and exited
C18_Witness ==
    /\ IsKill /\ stdin.signal = 1
    /\ pc = "exit" /\ exitStatus = 1
    /\ alive = None /\ stdout = <<>>

====
